---- MODULE Spec2Model ----
(***************************************************************************)
(* Verification model of the pricing-intelligence MCP server:              *)
(*   - GeminiOpenAIClient.make_full_request  (llm_client.py)               *)
(*   - AnalysisClient.submit_job / _poll_job (clients/analysis.py)         *)
(*   - MemoryCache.get / set                 (cache.py)                    *)
(*   - PricingAgent.handle_question          (agent.py)                    *)
(*   - chat, the HTTP operation around it    (http.py)                     *)
(*   - ServiceContainer.shutdown / lifespan  (container.py)                *)
(* Text is a sequence of one-character strings.  "N" stands for a newline, *)
(* "F" for a ``` code fence, " " for a blank.                              *)
(***************************************************************************)
EXTENDS Integers, Sequences, FiniteSets, TLC

VARIABLES
    \* ---- GeminiOpenAIClient.make_full_request
    config,         \* GeminiClientConfig: [model, better_model]
    max_tries,      \* argument max_tries
    json_output,    \* argument json_output
    state,          \* _LLMGenerationState
    attempt,        \* loop variable of make_full_request
    llm_pc,         \* "step" | "finalize" | "returned" | "raised"
    llm_result,     \* value returned by make_full_request (Nothing until then)
    sent,           \* log of _send_prompt calls: [prompt, model, before, cleaned]
    \* ---- AnalysisClient.submit_job
    poll_interval_seconds, max_wait_seconds,
    elapsed,        \* local variable of _poll_job
    job_pc,         \* "submit" | "poll" | "sleep" | "returned" | "failed" | "timeout" | "http_error"
    job_result,     \* value returned / error raised by submit_job
    job_log,        \* log of remote interactions and sleeps of this call
    \* ---- MemoryCache
    store,          \* self._store: key -> CacheEntry (NoEntry when the key is not in it)
    lock,           \* self._lock: the task holding it, or None
    now,            \* time.time()
    task,           \* per task: position in get/set, arguments, returned value
    last_set,       \* per key: value and expiry instant (time + ttl) of the latest set
    serial,         \* the calls so far run one after the other: [store, ret per task]
    \* ---- PricingAgent.handle_question
    pricing_url,    \* argument pricing_url
    yaml_content,   \* argument yaml_content
    plan,           \* the plan parsed from the planner's answer
    agent_pc,       \* "start" | "plan" | "exec" | "compose" | "returned" | "raised"
    actions,        \* normalized List[PlannedAction]
    url,            \* the request-level resolved reference
    index,          \* loop index of _execute_actions (0-based)
    transformed_urls,
    results,        \* step records
    last_payload,
    response_payload, \* what handle_question returned or raised
    remote,         \* log of the remote calls of this request (completion, Workflow)
    \* ---- ServiceContainer / lifespan
    cache_backend,  \* settings.cache_backend: "memory" | "redis"
    app_has_state,  \* hasattr(app, "state")
    life_pc,        \* "enter" | "serving" | "close_amint" | "close_analysis" | "close_cache" | "ended"
    served,         \* requests served since startup
    life_error,     \* the exception the lifespan context ends with (None: a clean exit)
    closed,         \* the close calls invoked so far, in order
    \* ---- concurrent requests in _execute_actions
    req             \* per request: its arguments, loop variables, position and calls

llm_vars == <<config, max_tries, json_output, state, attempt, llm_pc, llm_result, sent>>
job_vars == <<poll_interval_seconds, max_wait_seconds, elapsed, job_pc, job_result, job_log>>
cache_vars == <<store, lock, now, task, last_set, serial>>
agent_vars == <<pricing_url, yaml_content, plan, agent_pc, actions, url, index,
                transformed_urls, results, last_payload, response_payload, remote>>
life_vars == <<cache_backend, app_has_state, life_pc, served, life_error, closed>>
req_vars == <<req>>
vars == <<llm_vars, job_vars, cache_vars, agent_vars, life_vars, req_vars>>
not_llm == <<job_vars, cache_vars, agent_vars, life_vars, req_vars>>
not_job == <<llm_vars, cache_vars, agent_vars, life_vars, req_vars>>
not_cache == <<llm_vars, job_vars, agent_vars, life_vars, req_vars>>
not_agent == <<llm_vars, job_vars, cache_vars, life_vars, req_vars>>
not_life == <<llm_vars, job_vars, cache_vars, agent_vars, req_vars>>
not_req == <<llm_vars, job_vars, cache_vars, agent_vars, life_vars>>

None == "None"

\* Optional[str] results: Nothing is Python's None, Some(t) the text t
Nothing == <<>>
Some(t) == <<t>>

(***************************************************************************)
(* Bounds of the model                                                     *)
(***************************************************************************)
MaxTries == 3
MaxPollInterval == 2
MaxWait == 3
MaxTime == 2
MaxActions == 2
MaxServed == 2

(***************************************************************************)
(* Text helpers (str.strip, str.splitlines, "\n".join)                     *)
(***************************************************************************)
IsSpace(c) == c \in {" ", "N"}

RECURSIVE LStrip(_)
LStrip(s) == IF s # <<>> /\ IsSpace(Head(s)) THEN LStrip(Tail(s)) ELSE s

RECURSIVE RStrip(_)
RStrip(s) ==
    IF s # <<>> /\ IsSpace(s[Len(s)]) THEN RStrip(SubSeq(s, 1, Len(s) - 1)) ELSE s

Strip(s) == RStrip(LStrip(s))

\* str.splitlines(): the lines of s without their terminators
RECURSIVE SplitLines(_, _)
SplitLines(s, cur) ==
    IF s = <<>> THEN (IF cur = <<>> THEN <<>> ELSE <<cur>>)
    ELSE IF Head(s) = "N" THEN <<cur>> \o SplitLines(Tail(s), <<>>)
    ELSE SplitLines(Tail(s), Append(cur, Head(s)))

RECURSIVE JoinLines(_)
JoinLines(lines) ==
    IF lines = <<>> THEN <<>>
    ELSE IF Len(lines) = 1 THEN lines[1]
    ELSE lines[1] \o <<"N">> \o JoinLines(Tail(lines))

(***************************************************************************)
(* json.loads / json.dumps on the alphabet { "[", "]", "0", " ", "N" }     *)
(***************************************************************************)
RECURSIVE SkipWs(_, _)
SkipWs(s, i) == IF i <= Len(s) /\ IsSpace(s[i]) THEN SkipWs(s, i + 1) ELSE i

\* index just after the JSON value that starts at i, or 0 (JSONDecodeError)
RECURSIVE ParseValue(_, _)
ParseValue(s, i) ==
    IF i > Len(s) THEN 0
    ELSE IF s[i] = "0" THEN i + 1
    ELSE IF s[i] = "[" THEN
        LET j == SkipWs(s, i + 1) IN
        IF j <= Len(s) /\ s[j] = "]" THEN j + 1
        ELSE LET k == ParseValue(s, j) IN
             IF k = 0 THEN 0
             ELSE LET m == SkipWs(s, k) IN
                  IF m <= Len(s) /\ s[m] = "]" THEN m + 1 ELSE 0
    ELSE 0

json_loads_ok(s) ==
    LET k == ParseValue(s, SkipWs(s, 1)) IN k # 0 /\ SkipWs(s, k) = Len(s) + 1

\* json.dumps(json.loads(s)): the canonical text, blanks removed
json_dumps_loads(s) == SelectSeq(s, LAMBDA c : ~IsSpace(c))

(***************************************************************************)
(* GeminiOpenAIClient (llm_client.py)                                      *)
(***************************************************************************)
initial_prompt == <<"q">>

\* what the remote completion endpoint may answer: (content, finish_reason)
Contents ==
    { <<>>,                                   \* message.content is None -> ""
      <<"[">>,                                \* a truncated document
      <<"0", "]">>,                           \* the rest of it
      <<" ", "[", "0", "]", "N">>,            \* a complete document
      <<"F", "N", "[", " ", "]", "N", "F">>,  \* a fenced complete document
      <<"x">> }                               \* prose
FinishReasons == {"length", "stop"}

BaseModel == "flash"
BetterModels == {None, "", "pro", BaseModel}

\* truth value of an Optional[str]
Truthy(x) == x \notin {None, ""}

GenerationState(p, m, acc, fr, ubm) ==
    [prompt |-> p, model |-> m, accumulated |-> acc,
     finish_reason |-> fr, use_better_model |-> ubm]

normalize_response(response) ==
    LET stripped == Strip(response)
        lines == SplitLines(stripped, <<>>)
    IN  IF stripped # <<>> /\ Head(stripped) = "F" /\ stripped[Len(stripped)] = "F"
        THEN Strip(JoinLines(SubSeq(lines, 2, Len(lines) - 1)))
        ELSE stripped

build_continue_prompt(initial, accumulated) ==
    <<"T", "N", "<i>", "N">> \o initial \o <<"N", "</i>", "N", "<p>", "N">>
        \o accumulated \o <<"N", "</p>">>

step_generation_replaces(st, response_text, finish_reason) ==
    LET cleaned == normalize_response(response_text) IN
    GenerationState(st.prompt, st.model, cleaned, finish_reason, st.use_better_model)

\* _step_generation, given what _send_prompt returned
step_generation(st, response_text, finish_reason) ==
    LET cleaned == normalize_response(response_text) IN
    GenerationState(st.prompt, st.model, st.accumulated \o cleaned,
                    finish_reason, st.use_better_model)

try_finalize_needs_stop(st, json) ==
    IF st.finish_reason = "length" THEN Nothing
    ELSE IF json
    THEN IF json_loads_ok(st.accumulated)
         THEN Some(json_dumps_loads(st.accumulated)) ELSE Nothing
    ELSE Some(st.accumulated)

\* Nothing when the response is not final, else the text to return
try_finalize(st, json) ==
    IF json
    THEN IF json_loads_ok(st.accumulated)
         THEN Some(json_dumps_loads(st.accumulated)) ELSE Nothing
    ELSE IF st.finish_reason # "length" THEN Some(st.accumulated) ELSE Nothing

\* if attempt == max_tries: break
is_last_attempt_early(a, m) == a = m - 1
is_last_attempt(a, m) == a = m

prepare_retry_keeps_buffer(st, initial) ==
    IF Truthy(config.better_model) /\ ~st.use_better_model
    THEN GenerationState(initial, config.better_model, st.accumulated, "", TRUE)
    ELSE GenerationState(build_continue_prompt(initial, st.accumulated), st.model,
                         st.accumulated, "", st.use_better_model)

prepare_retry_forgets_flag(st, initial) ==
    IF Truthy(config.better_model) /\ ~st.use_better_model
    THEN GenerationState(initial, config.better_model, <<>>, "", st.use_better_model)
    ELSE GenerationState(build_continue_prompt(initial, st.accumulated), st.model,
                         st.accumulated, "", st.use_better_model)

prepare_retry(st, initial) ==
    IF Truthy(config.better_model) /\ ~st.use_better_model
    THEN GenerationState(initial, config.better_model, <<>>, "", TRUE)
    ELSE GenerationState(build_continue_prompt(initial, st.accumulated), st.model,
                         st.accumulated, "", st.use_better_model)

LlmInit ==
    /\ config \in [model : {BaseModel}, better_model : BetterModels]
    /\ max_tries \in 0..MaxTries
    /\ json_output \in BOOLEAN
    /\ state = GenerationState(initial_prompt, config.model, <<>>, "", FALSE)
    /\ attempt = 1
    /\ llm_pc = "step"
    /\ llm_result = Nothing
    /\ sent = <<>>

\* range(1, max_tries + 1) is empty: the loop body never runs
LoopEmpty ==
    /\ llm_pc = "step" /\ attempt > max_tries
    /\ llm_pc' = "raised"
    /\ UNCHANGED <<config, max_tries, json_output, state, attempt, llm_result, sent, not_llm>>

\* state = self._step_generation(state): one remote completion call
StepGeneration ==
    /\ llm_pc = "step" /\ attempt <= max_tries
    /\ \E content \in Contents, fr \in FinishReasons :
        /\ state' = step_generation(state, content, fr)
        /\ sent' = Append(sent, [prompt |-> state.prompt, model |-> state.model,
                                 before |-> state.accumulated,
                                 cleaned |-> normalize_response(content),
                                 finish_reason |-> fr])
    /\ llm_pc' = "finalize"
    /\ UNCHANGED <<config, max_tries, json_output, attempt, llm_result, not_llm>>

\* the rest of the loop body: _try_finalize, the break, _prepare_retry
Finalize ==
    /\ llm_pc = "finalize"
    /\ LET maybe_result == try_finalize(state, json_output) IN
        IF maybe_result # Nothing
        THEN /\ llm_result' = maybe_result
             /\ llm_pc' = "returned"
             /\ UNCHANGED <<state, attempt>>
        ELSE IF is_last_attempt(attempt, max_tries)
        THEN /\ llm_pc' = "raised"
             /\ UNCHANGED <<state, attempt, llm_result>>
        ELSE /\ state' = prepare_retry(state, initial_prompt)
             /\ attempt' = attempt + 1
             /\ llm_pc' = "step"
             /\ UNCHANGED llm_result
    /\ UNCHANGED <<config, max_tries, json_output, sent, not_llm>>

LlmNext == LoopEmpty \/ StepGeneration \/ Finalize

\* ---- properties of make_full_request
\* the accumulated buffer right after attempt i, and whether its finalization
\* check passes (structured: the buffer parses; otherwise: finish signal is not "length")
AccumulatedAfter(i) == sent[i].before \o sent[i].cleaned
Passes(i) ==
    IF json_output THEN json_loads_ok(AccumulatedAfter(i))
    ELSE sent[i].finish_reason # "length"
\* the attempts whose finalization check has been evaluated
Checked == IF llm_pc = "finalize" THEN 1..(Len(sent) - 1) ELSE 1..Len(sent)

\* C1: with max_tries >= 1, when no attempt passes the finalization check the call
\* makes exactly max_tries remote calls and then raises; once it has raised no
\* further remote call can be made.
C1_ExhaustedAfterMaxTries ==
    /\ Len(sent) <= max_tries
    /\ (llm_pc = "raised" /\ max_tries >= 1) =>
           /\ Len(sent) = max_tries
           /\ \A i \in 1..Len(sent) : ~Passes(i)
           /\ ~ENABLED StepGeneration
    /\ (max_tries >= 1 /\ Checked = 1..max_tries /\ \A i \in Checked : ~Passes(i)) =>
           llm_pc = "raised"

C1_Witness ==
    llm_pc = "raised" /\ max_tries >= 2 /\ Len(sent) = max_tries

\* C2: when the first response is not final and a better model is configured,
\* attempt 2 goes to the better model with the original prompt and an empty buffer,
\* so the buffer after attempt 2 is the normalized second response alone.
C2_EscalationResetsBuffer ==
    (Len(sent) >= 2 /\ Truthy(config.better_model)) =>
        /\ sent[2].model = config.better_model
        /\ sent[2].prompt = initial_prompt
        /\ sent[2].before = <<>>
        /\ (llm_pc = "finalize" /\ attempt = 2) =>
               (state.accumulated = sent[2].cleaned /\ state.model = config.better_model)

C2_Witness ==
    /\ llm_pc = "finalize" /\ attempt = 2 /\ config.better_model = "pro"
    /\ sent[1].cleaned = <<"[">> /\ sent[1].finish_reason = "length"
    /\ state.accumulated = <<"0", "]">>

\* C3: the call returns at the first attempt k whose finalization check passes, after
\* exactly k remote calls; a response that is final on attempt 1 returns after one
\* call to the base model with the original prompt (no escalation, no continuation).
C3_ReturnsAtFirstFinal ==
    /\ \A i \in Checked : Passes(i) => (i = Len(sent) /\ llm_pc = "returned")
    /\ llm_pc = "returned" =>
           /\ Len(sent) >= 1 /\ Passes(Len(sent))
           /\ llm_result = Some(IF json_output
                                 THEN json_dumps_loads(AccumulatedAfter(Len(sent)))
                                 ELSE AccumulatedAfter(Len(sent)))
    /\ (llm_pc = "returned" /\ Len(sent) = 1) =>
           /\ sent[1].model = config.model /\ sent[1].prompt = initial_prompt
           /\ ~state.use_better_model /\ state.model = config.model

C3_Witness ==
    /\ llm_pc = "returned" /\ json_output /\ Len(sent) = 1
    /\ sent[1].finish_reason = "length" /\ Truthy(config.better_model)
    /\ llm_result = Some(<<"[", "]">>)

\* the retries that show a switch: the attempt restarts from the original prompt, or
\* goes to another model than the attempt before, or starts from an emptied buffer
Restarts ==
    { i \in 2..Len(sent) :
         \/ sent[i].prompt = initial_prompt
         \/ sent[i].model # sent[i - 1].model
         \/ sent[i].before = <<>> /\ AccumulatedAfter(i - 1) # <<>> }

\* C15: within one call there is at most one escalation: at most one retry restarts
\* from the original prompt with an emptied buffer, it goes to the better model, and
\* every later attempt is a continuation on that same model which carries the buffer on.
C15_EscalatesAtMostOnce ==
    /\ Cardinality(Restarts) <= 1
    /\ \A i \in Restarts :
          /\ Truthy(config.better_model)
          /\ sent[i].before = <<>>
          /\ \A j \in i..Len(sent) : sent[j].model = config.better_model
          /\ \A j \in (i + 1)..Len(sent) :
                /\ sent[j].prompt = build_continue_prompt(initial_prompt, sent[j].before)
                /\ sent[j].prompt # initial_prompt
                /\ sent[j].before = AccumulatedAfter(j - 1)
    /\ (state.use_better_model /\ Len(sent) >= 2) => state.model = config.better_model

C15_Witness ==
    /\ Len(sent) = 3 /\ config.better_model = "pro"
    /\ Restarts = {2}
    /\ sent[1].cleaned = <<"x">>
    /\ sent[3].model = "pro" /\ sent[3].before = <<"[">>

\* sub occurs in s as a block
Contains(s, sub) ==
    \E k \in 0..(Len(s) - Len(sub)) : SubSeq(s, k + 1, k + Len(sub)) = sub
\* the normalized responses of attempts i..j, concatenated in order
RECURSIVE ConcatCleaned(_, _)
ConcatCleaned(i, j) == IF i > j THEN <<>> ELSE sent[i].cleaned \o ConcatCleaned(i + 1, j)
\* the retries sent with a continuation prompt, and the attempt the buffer dates from
Continuations == { i \in 2..Len(sent) : sent[i].prompt # initial_prompt }
LastStart ==
    LET fresh == { i \in 1..Len(sent) : sent[i].prompt = initial_prompt }
    IN  CHOOSE i \in fresh : \A j \in fresh : j <= i

\* C16: a continuation retry goes to the same model as the attempt before it, starts
\* from the buffer that attempt left, and its prompt embeds the original prompt and
\* that buffer; after each attempt the buffer is the buffer before it followed by the
\* attempt's normalized response, hence the in-order concatenation of the normalized
\* responses received since the last reset.
C16_ContinuationAppends ==
    /\ \A i \in Continuations :
          /\ sent[i].model = sent[i - 1].model
          /\ sent[i].before = AccumulatedAfter(i - 1)
          /\ Contains(sent[i].prompt, initial_prompt)
          /\ Contains(sent[i].prompt, sent[i].before)
          /\ sent[i].prompt = build_continue_prompt(initial_prompt, sent[i].before)
    /\ (Len(sent) >= 1 /\ llm_pc \in {"finalize", "returned", "raised"}) =>
          /\ state.accumulated = AccumulatedAfter(Len(sent))
          /\ state.accumulated = ConcatCleaned(LastStart, Len(sent))
    /\ (Len(sent) >= 1 /\ llm_pc = "step") =>
          state.accumulated = IF state.prompt = initial_prompt THEN <<>>
                              ELSE ConcatCleaned(LastStart, Len(sent))

C16_Witness ==
    /\ llm_pc = "finalize" /\ attempt = 3 /\ ~Truthy(config.better_model)
    /\ Continuations = {2, 3}
    /\ sent[1].cleaned = <<"[">> /\ sent[2].cleaned = <<"0", "]">> /\ sent[3].cleaned = <<"x">>
    /\ state.accumulated = <<"[", "0", "]", "x">>

\* C17: a retry switches model, empties the buffer and restarts from the original
\* prompt only when a better model distinct from the model in use is configured and
\* has not been used yet in the call; when none is configured, or it is the base model
\* itself, the first retry is a continuation that keeps the buffer.
C17_EscalationOnlyToDistinctModel ==
    /\ \A i \in Restarts :
          /\ Truthy(config.better_model)
          /\ config.better_model # sent[i - 1].model
          /\ \A j \in 1..(i - 1) : sent[j].model # config.better_model
    /\ (Len(sent) >= 2 /\ (~Truthy(config.better_model) \/ config.better_model = config.model)) =>
          /\ 2 \in Continuations
          /\ sent[2].model = config.model
          /\ sent[2].before = AccumulatedAfter(1)

(***************************************************************************)
(* AnalysisClient.submit_job / _poll_job (clients/analysis.py)             *)
(* Seconds are whole numbers here.                                         *)
(***************************************************************************)
Absent == "absent"          \* a key the JSON payload does not carry

\* bodies the status endpoint may answer with
StatusPayloads ==
    [status : {"RUNNING", "completed", Absent}, result : {Absent}, error : {Absent}]
    \cup [status : {"RUNNING"}, result : {"r1"}, error : {"e1"}]
    \cup [status : {"COMPLETED"}, result : {Absent, "r1", "r2"}, error : {Absent}]
    \cup [status : {"FAILED"}, result : {Absent}, error : {Absent, "e1", "e2"}]

\* what POST /api/v1/pricing/analysis may answer
SubmitResponses == {"accepted", "no_job_id", "http_error"}

payload_get_results_typo(payload) == "{}"
\* payload.get("result", {})
payload_get_result(payload) == IF payload.result = Absent THEN "{}" ELSE payload.result

\* payload.get("error"), formatted by the f-string
payload_get_error(payload) == IF payload.error = Absent THEN None ELSE payload.error

Outcome(k, v) == [kind |-> k, value |-> v]
Event(k, s, r, e) == [kind |-> k, status |-> s, result |-> r, error |-> e, elapsed |-> elapsed]

\* while elapsed < max_wait_seconds
within_budget_inclusive(e, m) == e <= m
within_budget(e, m) == e < m

\* if status == "COMPLETED"
is_completed(status) == status = "COMPLETED"

\* if status == "FAILED"
is_failed_lowercase(status) == status = "failed"
is_failed(status) == status = "FAILED"

Gets(log) == SelectSeq(log, LAMBDA e : e.kind = "get")

\* job_log records the first MaxGets non-terminal status requests of a call, each
\* with the sleep after it, and the terminal one; the loop itself goes on (it is
\* unbounded when poll_interval_seconds is 0)
MaxGets == MaxWait + 1
Logged(log, e) ==
    IF e.kind = "sleep"
    THEN (IF log # <<>> /\ log[Len(log)].kind = "get" THEN Append(log, e) ELSE log)
    ELSE IF e.status \in {"COMPLETED", "FAILED", "http_error"} \/ Len(Gets(log)) < MaxGets
    THEN Append(log, e) ELSE log

JobInit ==
    /\ poll_interval_seconds \in 0..MaxPollInterval
    /\ max_wait_seconds \in 0..MaxWait
    /\ elapsed = 0
    /\ job_pc = "submit"
    /\ job_result = Outcome("pending", <<>>)
    /\ job_log = <<>>

raise_for_status_ignored(response) == FALSE
\* response.raise_for_status(): TRUE when it raises
raise_for_status(response) == response = "http_error"

\* submit_job up to the call of _poll_job
SubmitJob ==
    /\ job_pc = "submit"
    /\ \E response \in SubmitResponses :
        /\ job_log' = Append(job_log, Event("post", response, Absent, Absent))
        /\ IF raise_for_status(response)
           THEN job_pc' = "raised" /\ job_result' = Outcome("HTTPStatusError", <<"post">>)
           ELSE IF response = "no_job_id"
           THEN job_pc' = "raised" /\ job_result' = Outcome("KeyError", <<"jobId">>)
           ELSE job_pc' = "poll" /\ job_result' = job_result
    /\ elapsed' = 0
    /\ UNCHANGED <<poll_interval_seconds, max_wait_seconds, not_job>>

\* one status request of the while loop, up to the sleep
PollStatus ==
    /\ job_pc = "poll" /\ within_budget(elapsed, max_wait_seconds)
    /\ \/ /\ job_log' = Logged(job_log, Event("get", "http_error", Absent, Absent))
          /\ job_pc' = "raised"
          /\ job_result' = Outcome("HTTPStatusError", <<"get">>)
       \/ \E payload \in StatusPayloads :
          /\ job_log' = Logged(job_log, Event("get", payload.status, payload.result, payload.error))
          /\ IF is_completed(payload.status)
             THEN /\ job_pc' = "returned"
                  /\ job_result' = Outcome("returned", <<payload_get_result(payload)>>)
             ELSE IF is_failed(payload.status)
             THEN /\ job_pc' = "raised"
                  /\ job_result' = Outcome("AnalysisError",
                                            <<"Analysis job failed: ", payload_get_error(payload)>>)
             ELSE /\ job_pc' = "sleep"
                  /\ job_result' = job_result
    /\ UNCHANGED <<poll_interval_seconds, max_wait_seconds, elapsed, not_job>>

\* await asyncio.sleep(poll_interval_seconds); elapsed += poll_interval_seconds
Sleep ==
    /\ job_pc = "sleep"
    /\ job_log' = Logged(job_log, Event("sleep", "-", Absent, Absent))
    /\ elapsed' = elapsed + poll_interval_seconds
    /\ job_pc' = "poll"
    /\ UNCHANGED <<poll_interval_seconds, max_wait_seconds, job_result, not_job>>

\* the while condition fails
Timeout ==
    /\ job_pc = "poll" /\ ~within_budget(elapsed, max_wait_seconds)
    /\ job_pc' = "raised"
    /\ job_result' = Outcome("AnalysisError", <<"Timed out waiting for analysis result">>)
    /\ UNCHANGED <<poll_interval_seconds, max_wait_seconds, elapsed, job_log, not_job>>

JobNext == SubmitJob \/ PollStatus \/ Sleep \/ Timeout

\* ---- properties of submit_job
Terminal(e) == e.status \in {"COMPLETED", "FAILED", "http_error"}
Sleeps(log) == SelectSeq(log, LAMBDA e : e.kind = "sleep")
CeilDiv(a, b) == (a + b - 1) \div b
TimedOut == job_result = Outcome("AnalysisError", <<"Timed out waiting for analysis result">>)

\* C4: the first poll that observes COMPLETED ends the call, which returns that
\* poll's result; every earlier (non-terminal) poll is followed by a sleep and then
\* another poll; nothing is requested after the COMPLETED poll.
C4_CompletedReturnsResult ==
    /\ \A i \in 1..Len(job_log) :
          (job_log[i].kind = "get" /\ job_log[i].status = "COMPLETED") =>
             /\ i = Len(job_log)
             /\ job_pc = "returned"
             /\ job_result = Outcome("returned",
                    <<IF job_log[i].result = Absent THEN "{}" ELSE job_log[i].result>>)
             /\ ~ENABLED JobNext
             /\ \A j \in 1..(i - 1) :
                   job_log[j].kind = "get" =>
                      /\ ~Terminal(job_log[j])
                      /\ job_log[j + 1].kind = "sleep"
                      /\ j + 2 <= i /\ job_log[j + 2].kind = "get"
    /\ job_pc = "returned" =>
          (job_log # <<>> /\ job_log[Len(job_log)].status = "COMPLETED")

C4_Witness ==
    /\ job_pc = "returned" /\ job_result = Outcome("returned", <<"r2">>)
    /\ Len(Gets(job_log)) = 3 /\ Len(Sleeps(job_log)) = 2
    /\ \A i \in 1..2 : Gets(job_log)[i].status = "RUNNING"

\* C5: the first poll that observes FAILED makes the call raise AnalysisError with
\* the remote error description at once: no sleep, no further request.
C5_FailedRaisesAtOnce ==
    \A i \in 1..Len(job_log) :
       (job_log[i].kind = "get" /\ job_log[i].status = "FAILED") =>
          /\ i = Len(job_log)
          /\ job_pc = "raised"
          /\ job_result = Outcome("AnalysisError",
                 <<"Analysis job failed: ",
                   IF job_log[i].error = Absent THEN None ELSE job_log[i].error>>)
          /\ ~ENABLED JobNext

C5_Witness ==
    /\ job_pc = "raised"
    /\ job_result = Outcome("AnalysisError", <<"Analysis job failed: ", "e2">>)
    /\ Len(Gets(job_log)) = 2 /\ Len(Sleeps(job_log)) = 1

Posts(log) == SelectSeq(log, LAMBDA e : e.kind = "post")

\* C18: when the submission request is answered with a non-success status, submit_job
\* raises that failure after exactly one submission request: the submission is not
\* sent again and no status request is ever made.
C18_SubmitFailureIsFinal ==
    /\ Len(Posts(job_log)) <= 1
    /\ (job_log # <<>> /\ job_log[1].status = "http_error") =>
          /\ job_log[1].kind = "post"
          /\ Len(job_log) = 1
          /\ Gets(job_log) = <<>> /\ Sleeps(job_log) = <<>>
          /\ job_pc = "raised"
          /\ job_result = Outcome("HTTPStatusError", <<"post">>)
          /\ ~ENABLED JobNext

C18_Witness ==
    /\ job_pc = "raised" /\ job_result = Outcome("HTTPStatusError", <<"post">>)
    /\ Len(job_log) = 1 /\ job_log[1].status = "http_error"
    /\ max_wait_seconds = 3 /\ poll_interval_seconds = 1

Done == job_pc \in {"returned", "raised"}

\* C19: whatever poll_interval_seconds and max_wait_seconds submit_job is called
\* with, the call comes to an end (with the timeout AnalysisError when the job never
\* reports a terminal status), and at the timeout the wait spent exceeds
\* max_wait_seconds by less than one poll interval.
C19_HungJobTimesOut ==
    /\ <>Done
    /\ [](TimedOut => elapsed <= max_wait_seconds + poll_interval_seconds)
    /\ []((Done /\ job_log[1].status = "accepted"
                 /\ \A i \in 2..Len(job_log) : ~Terminal(job_log[i])) => TimedOut)

(***************************************************************************)
(* MemoryCache (cache.py)                                                  *)
(***************************************************************************)
Tasks == {"t1", "t2"}
Keys == {"k1", "k2"}
Values == {"v1", "v2"}
Ttls == {0, 1}
NoEntry == [value |-> "-", expires_at |-> -1, present |-> FALSE]

CacheEntry(v, e) == [value |-> v, expires_at |-> e, present |-> TRUE]

\* what a task is doing: pc, the call and its arguments, the local variable entry of
\* get, the value returned
IdleTask ==
    [pc |-> "idle", op |-> "-", key |-> "-", value |-> "-", ttl |-> 0,
     entry |-> NoEntry, ret |-> Nothing]

cache_get_no_evict(st, key, time) ==
    LET entry == st[key] IN
    IF ~entry.present THEN <<Nothing, st>>
    ELSE IF entry.expires_at < time THEN <<Nothing, st>>
    ELSE <<Some(entry.value), st>>

\* body of MemoryCache.get under the lock: <<returned value, new store>>
cache_get(st, key, time) ==
    LET entry == st[key] IN
    IF ~entry.present THEN <<Nothing, st>>
    ELSE IF entry.expires_at < time THEN <<Nothing, [st EXCEPT ![key] = NoEntry]>>
    ELSE <<Some(entry.value), st>>

\* get after  entry = self._store.get(key): <<returned value, new store>>
cache_get_check(st, key, entry, time) ==
    IF ~entry.present THEN <<Nothing, st>>
    ELSE IF entry.expires_at < time THEN <<Nothing, [st EXCEPT ![key] = NoEntry]>>
    ELSE <<Some(entry.value), st>>

\* body of MemoryCache.set under the lock: the new store
cache_set(st, key, value, ttl_seconds, time) ==
    [st EXCEPT ![key] = CacheEntry(value, time + ttl_seconds)]

\* the calls run one after the other, in the order in which they read the clock
SerialInit == [store |-> [k \in Keys |-> NoEntry], ret |-> [t \in Tasks |-> Nothing]]
SerialCall(t) == [serial EXCEPT !.ret[t] = Nothing]
SerialGet(t, key, time) ==
    LET r == cache_get(serial.store, key, time)
    IN  [store |-> r[2], ret |-> [serial.ret EXCEPT ![t] = r[1]]]
SerialSet(t, key, value, ttl_seconds, time) ==
    [serial EXCEPT !.store = cache_set(serial.store, key, value, ttl_seconds, time)]

CacheInit ==
    /\ store = [k \in Keys |-> NoEntry]
    /\ lock = None
    /\ now = 0
    /\ task = [t \in Tasks |-> IdleTask]
    /\ last_set = [k \in Keys |-> [present |-> FALSE, value |-> "-", expiry |-> 0]]
    /\ serial = SerialInit

\* a request calls cache.get(key)
CallGet(t) ==
    /\ task[t].pc = "idle"
    /\ \E k \in Keys :
        task' = [task EXCEPT ![t] = [IdleTask EXCEPT !.pc = "acquire", !.op = "get", !.key = k]]
    /\ serial' = SerialCall(t)
    /\ UNCHANGED <<store, lock, now, last_set, not_cache>>

\* a request calls cache.set(key, value, ttl_seconds)
CallSet(t) ==
    /\ task[t].pc = "idle"
    /\ \E k \in Keys, v \in Values, ttl \in Ttls :
        task' = [task EXCEPT ![t] = [IdleTask EXCEPT !.pc = "acquire", !.op = "set",
                                                        !.key = k, !.value = v, !.ttl = ttl]]
    /\ serial' = SerialCall(t)
    /\ UNCHANGED <<store, lock, now, last_set, not_cache>>

lock_is_free_unchecked(l) == TRUE
\* asyncio.Lock: not self._locked
lock_is_free(l) == l = None

\* async with self._lock: entered once the lock is free
Acquire(t) ==
    /\ task[t].pc = "acquire"
    /\ lock_is_free(lock)
    /\ lock' = t
    /\ task' = [task EXCEPT ![t].pc = "locked"]
    /\ UNCHANGED <<store, now, last_set, serial, not_cache>>

\* the body of get, then the release of the lock and the return
GetBody(t) ==
    /\ task[t].pc = "locked" /\ task[t].op = "get"
    /\ LET r == cache_get(store, task[t].key, now) IN
        /\ store' = r[2]
        /\ task' = [task EXCEPT ![t].pc = "idle", ![t].ret = r[1]]
    /\ serial' = SerialGet(t, task[t].key, now)
    /\ lock' = None
    /\ UNCHANGED <<now, last_set, not_cache>>

\* get, statement by statement: entry = self._store.get(key)
GetRead(t) ==
    /\ task[t].pc = "locked" /\ task[t].op = "get"
    /\ task' = [task EXCEPT ![t].pc = "read", ![t].entry = store[task[t].key]]
    /\ UNCHANGED <<store, lock, now, last_set, serial, not_cache>>

\* ... then the two tests, the pop, the release of the lock and the return
GetCheck(t) ==
    /\ task[t].pc = "read"
    /\ LET r == cache_get_check(store, task[t].key, task[t].entry, now) IN
        /\ store' = r[2]
        /\ task' = [task EXCEPT ![t].pc = "idle", ![t].entry = NoEntry, ![t].ret = r[1]]
    /\ serial' = SerialGet(t, task[t].key, now)
    /\ lock' = None
    /\ UNCHANGED <<now, last_set, not_cache>>

\* the body of set, then the release of the lock and the return
SetBody(t) ==
    /\ task[t].pc = "locked" /\ task[t].op = "set"
    /\ store' = cache_set(store, task[t].key, task[t].value, task[t].ttl, now)
    /\ last_set' = [last_set EXCEPT ![task[t].key] =
                        [present |-> TRUE, value |-> task[t].value, expiry |-> now + task[t].ttl]]
    /\ task' = [task EXCEPT ![t].pc = "idle", ![t].value = "-", ![t].ttl = 0]
    /\ serial' = SerialSet(t, task[t].key, task[t].value, task[t].ttl, now)
    /\ lock' = None
    /\ UNCHANGED <<now, not_cache>>

\* the clock advances
Tick ==
    /\ now < MaxTime
    /\ now' = now + 1
    /\ UNCHANGED <<store, lock, task, last_set, serial, not_cache>>

CacheNext ==
    \/ \E t \in Tasks : CallGet(t) \/ CallSet(t) \/ Acquire(t) \/ GetBody(t) \/ SetBody(t)
    \/ Tick

\* the same with get taken statement by statement
CacheStepsNext ==
    \/ \E t \in Tasks : CallGet(t) \/ CallSet(t) \/ Acquire(t) \/ GetRead(t) \/ GetCheck(t)
                            \/ SetBody(t)
    \/ Tick

\* ---- properties of MemoryCache
GetReturns(t) == task[t].pc = "locked" /\ task[t].op = "get" /\ task'[t].pc = "idle"
SetReturns(t, k) ==
    task[t].pc = "locked" /\ task[t].op = "set" /\ task[t].key = k /\ task'[t].pc = "idle"

\* C7: after set(key, value, ttl) a get(key) before the expiry instant (the time of
\* the set plus ttl) returns value; a get(key) after it returns absent and leaves the
\* store without the key, which stays out of the store until the next set(key, ...).
C7_GetHonoursExpiry ==
    [][ /\ \A t \in Tasks :
              (GetReturns(t) /\ last_set[task[t].key].present) =>
                 LET k == task[t].key IN
                 /\ now < last_set[k].expiry =>
                       (task'[t].ret = Some(last_set[k].value) /\ store'[k] = store[k])
                 /\ now > last_set[k].expiry =>
                       (task'[t].ret = Nothing /\ ~store'[k].present)
        /\ \A k \in Keys :
              (~store[k].present /\ store'[k].present) => \E t \in Tasks : SetReturns(t, k)
      ]_vars

C7_Witness ==
    \E k \in Keys :
       /\ last_set[k].present /\ now > last_set[k].expiry /\ ~store[k].present
       /\ task["t1"] = [IdleTask EXCEPT !.op = "get", !.key = k, !.ret = Some("v2")]
       /\ task["t2"] = [IdleTask EXCEPT !.op = "get", !.key = k, !.ret = Nothing]

\* a task is inside a store access: it holds the lock and has not returned yet
Inside(t) == task[t].pc \in {"locked", "read"}

\* C20: at most one task is inside a store access at any time, and it is the holder
\* of the lock; whenever no task is inside, the store and the value each finished call
\* returned are those of the same calls run one after the other.
C20_MutualExclusionSerializable ==
    /\ Cardinality({ t \in Tasks : Inside(t) }) <= 1
    /\ \A t \in Tasks : Inside(t) => lock = t
    /\ (\A t \in Tasks : ~Inside(t)) => (lock = None /\ store = serial.store)
    /\ \A t \in Tasks : task[t].pc = "idle" => task[t].ret = serial.ret[t]
    /\ \A t \in Tasks : task[t].pc = "read" => task[t].entry = store[task[t].key]

\* one task is between the two statements of get on an expired entry while the other
\* waits for the lock with a set of the same key
C20_Witness ==
    /\ task["t1"].pc = "read" /\ task["t1"].key = "k1"
    /\ task["t1"].entry.present /\ task["t1"].entry.expires_at < now
    /\ task["t2"].pc = "acquire" /\ task["t2"].op = "set" /\ task["t2"].key = "k1"
    /\ lock = "t1"

(***************************************************************************)
(* PricingAgent (agent.py)                                                 *)
(* JSON values of the plan: a string is itself, NonStr is a value that is  *)
(* not a string (a number), None is null or a missing key.                 *)
(***************************************************************************)
ALLOWED_ACTIONS == {"optimal", "subscriptions", "summary"}
NonStr == "#7"
UploadedRef == "uploaded://pricing"

IsStr(v) == v \notin {None, NonStr}

\* Python's  a or b
Or(a, b) == IF Truthy(a) THEN a ELSE b

PlannedAction(n, o, u) == [name |-> n, objective |-> o, pricing_url |-> u]

\* an entry of plan["actions"]: a bare string, an object, or something else
StrEntry(n) == [type |-> "str", name |-> n, objective |-> None, pricing_url |-> None, url |-> None]
DictEntry(n, o, pu, u) == [type |-> "dict", name |-> n, objective |-> o, pricing_url |-> pu, url |-> u]
OtherEntry == [type |-> "other", name |-> None, objective |-> None, pricing_url |-> None, url |-> None]

parse_action_entry_keeps_objective(entry) ==
    IF entry.type = "str"
    THEN IF entry.name \in ALLOWED_ACTIONS
         THEN <<PlannedAction(entry.name, None, None)>> ELSE <<>>
    ELSE IF entry.type = "dict"
    THEN IF ~IsStr(entry.name) \/ entry.name \notin ALLOWED_ACTIONS
         THEN <<>>
         ELSE LET raw_url == Or(entry.pricing_url, entry.url)
                  p_url == IF raw_url # None /\ ~IsStr(raw_url) THEN None ELSE raw_url
              IN <<PlannedAction(entry.name, entry.objective, p_url)>>
    ELSE <<>>

parse_action_entry_unchecked_object(entry) ==
    IF entry.type = "str"
    THEN IF entry.name \in ALLOWED_ACTIONS
         THEN <<PlannedAction(entry.name, None, None)>> ELSE <<>>
    ELSE IF entry.type = "dict"
    THEN IF ~IsStr(entry.name)
         THEN <<>>
         ELSE <<PlannedAction(entry.name, None, None)>>
    ELSE <<>>

\* _parse_action_entry: <<>> for None, <<PlannedAction>> otherwise
parse_action_entry(entry) ==
    IF entry.type = "str"
    THEN IF entry.name \in ALLOWED_ACTIONS
         THEN <<PlannedAction(entry.name, None, None)>> ELSE <<>>
    ELSE IF entry.type = "dict"
    THEN IF ~IsStr(entry.name) \/ entry.name \notin ALLOWED_ACTIONS
         THEN <<>>
         ELSE LET objective == IF entry.objective \notin {None, "minimize", "maximize"}
                               THEN None ELSE entry.objective
                  raw_url == Or(entry.pricing_url, entry.url)
                  p_url == IF raw_url # None /\ ~IsStr(raw_url) THEN None ELSE raw_url
              IN <<PlannedAction(entry.name, objective, p_url)>>
    ELSE <<>>

RECURSIVE parse_entries(_)
parse_entries(raw) ==
    IF raw = <<>> THEN <<>> ELSE parse_action_entry(Head(raw)) \o parse_entries(Tail(raw))

\* plan["actions"]: [kind, items]; kind is "list", "none" (null / missing) or "other"
normalize_actions(raw_actions) ==
    IF raw_actions.kind # "list" THEN <<>> ELSE parse_entries(raw_actions.items)

resolve_pricing_reference_no_sentinel(plan_url, incoming_url, yaml) ==
    LET resolved_plan_url ==
            IF plan_url.kind = "str" THEN plan_url.items[1]
            ELSE IF plan_url.kind = "list"
            THEN (IF plan_url.items # <<>> THEN plan_url.items[1] ELSE None)
            ELSE None
    IN  Or(resolved_plan_url, incoming_url)

resolve_pricing_reference_caller_first(plan_url, incoming_url, yaml) ==
    LET resolved_plan_url ==
            IF plan_url.kind = "str" THEN plan_url.items[1]
            ELSE IF plan_url.kind = "list"
            THEN (IF plan_url.items # <<>> THEN plan_url.items[1] ELSE None)
            ELSE None
        u == Or(incoming_url, resolved_plan_url)
    IN  IF Truthy(yaml) /\ ~Truthy(u) THEN UploadedRef ELSE u

\* plan["pricing_url"]: [kind, items]; kind is "str" (items = <<the string>>),
\* "list", "none" or "other"
resolve_pricing_reference(plan_url, incoming_url, yaml) ==
    LET resolved_plan_url ==
            IF plan_url.kind = "str" THEN plan_url.items[1]
            ELSE IF plan_url.kind = "list"
            THEN (IF plan_url.items # <<>> THEN plan_url.items[1] ELSE None)
            ELSE None
        u == Or(resolved_plan_url, incoming_url)
    IN  IF Truthy(yaml) /\ ~Truthy(u) THEN UploadedRef ELSE u

\* the messages of the ValueErrors raised on the way
MsgExhausted == "Could not obtain a complete response from the LLM."
MsgPlanParse == "Failed to interpret assistant plan. Please rephrase your request."
MsgYamlRequired ==
    "The assistant needs a YAML pricing file to proceed. Please upload one and retry."
MsgAnalysisContext ==
    "Running subscriptions or optimal analysis requires a pricing URL or an uploaded Pricing2Yaml file."
MsgSummaryContext ==
    "A summary requires pricing context. Provide a pricing URL or Pricing2Yaml upload before running it."
\* any exception of a Workflow operation
MsgWorkflow == "workflow failure"

validate_yaml_requirement_none_only(pl, yaml) == pl.requires_uploaded_yaml /\ yaml = None

validate_yaml_requirement_skipped(pl, yaml) == FALSE

\* _validate_yaml_requirement: TRUE when it raises
validate_yaml_requirement_raises(pl, yaml) == pl.requires_uploaded_yaml /\ ~Truthy(yaml)

\* not (action_url or yaml_content) for one action
missing_context(action, u, yaml) ==
    LET action_url == Or(action.pricing_url, u) IN ~(Truthy(action_url) \/ Truthy(yaml))

ensure_pricing_context_first_only(acts, u, yaml) ==
    acts # <<>> /\ missing_context(acts[1], u, yaml)

\* _ensure_pricing_context: TRUE when it raises
ensure_pricing_context_raises(acts, u, yaml) ==
    \E i \in 1..Len(acts) : missing_context(acts[i], u, yaml)

\* ... and the message it raises with: that of the first action without context
ensure_pricing_context_error(acts, u, yaml) ==
    LET i == CHOOSE k \in 1..Len(acts) :
                 /\ missing_context(acts[k], u, yaml)
                 /\ \A j \in 1..(k - 1) : ~missing_context(acts[j], u, yaml)
    IN  IF acts[i].name = "summary" THEN MsgSummaryContext ELSE MsgAnalysisContext

prepare_action_inputs_always_refresh(action, default_url, refresh_requested, transformed, yaml) ==
    LET action_url == Or(action.pricing_url, default_url)
        effective_refresh == refresh_requested /\ Truthy(action_url)
        action_yaml == IF action_url = None \/ action_url = default_url THEN yaml ELSE None
    IN  [action_url |-> action_url, effective_refresh |-> effective_refresh,
         action_yaml |-> action_yaml]

prepare_action_inputs_always_yaml(action, default_url, refresh_requested, transformed, yaml) ==
    LET action_url == Or(action.pricing_url, default_url)
        effective_refresh == IF refresh_requested /\ Truthy(action_url)
                             THEN action_url \notin transformed ELSE FALSE
    IN  [action_url |-> action_url, effective_refresh |-> effective_refresh,
         action_yaml |-> yaml]

\* _prepare_action_inputs: [action_url, effective_refresh, action_yaml]
prepare_action_inputs(action, default_url, refresh_requested, transformed, yaml) ==
    LET action_url == Or(action.pricing_url, default_url)
        effective_refresh == IF refresh_requested /\ Truthy(action_url)
                             THEN action_url \notin transformed ELSE FALSE
        action_yaml == IF action_url = None \/ action_url = default_url THEN yaml ELSE None
    IN  [action_url |-> action_url, effective_refresh |-> effective_refresh,
         action_yaml |-> action_yaml]

\* a payload that is None, and the empty dict {}
NoPayload == [data |-> None]
EmptyDict == [data |-> "{}"]
\* the key lastPayload left out of the combined object
AbsentPayload == [data |-> Absent]

\* the Workflow call made by _run_single_action; completed and seen_refreshed note
\* how many operations had returned and what transformed_urls held at the dispatch
workflow_call(action, u, refresh, objective, yaml) ==
    [kind |-> action.name, payload |-> NoPayload,
     url |-> IF action.name = "summary" THEN u ELSE Or(u, ""),
     refresh |-> refresh,
     objective |-> IF action.name = "optimal" THEN Or(action.objective, objective) ELSE Absent,
     yaml_content |-> yaml,
     completed |-> Len(results), seen_refreshed |-> transformed_urls]

next_action_reversed(acts, i) == acts[Len(acts) - i]
\* for index, action in enumerate(actions): the action of iteration i (0-based)
next_action(acts, i) == acts[i + 1]

\* a completion call; payload is the tool payload put into the answer prompt
llm_call(which, payload) ==
    [kind |-> which, payload |-> payload, url |-> Absent, refresh |-> FALSE, objective |-> Absent,
     yaml_content |-> Absent]

StepRecord_one_based(i, action, payload, objective, action_url) ==
    [index |-> i + 1, action |-> action.name, payload |-> payload,
     objective |-> IF action.name = "optimal" THEN Or(action.objective, objective) ELSE Absent,
     url |-> IF Truthy(action_url) THEN action_url ELSE Absent]

\* the step record built by _execute_actions
StepRecord(i, action, payload, objective, action_url) ==
    [index |-> i, action |-> action.name, payload |-> payload,
     objective |-> IF action.name = "optimal" THEN Or(action.objective, objective) ELSE Absent,
     url |-> IF Truthy(action_url) THEN action_url ELSE Absent]


RECURSIVE ActionNames(_)
ActionNames(acts) == IF acts = <<>> THEN <<>> ELSE <<Head(acts).name>> \o ActionNames(Tail(acts))

compose_results_payload_empty_dict(acts, res, last) ==
    IF res = <<>>
    THEN <<EmptyDict, EmptyDict>>
    ELSE IF Len(res) = 1
    THEN LET step_record == res[1]
             payload == IF step_record.payload = NoPayload
                        THEN (IF last = NoPayload THEN EmptyDict ELSE last)
                        ELSE step_record.payload
         IN <<payload, step_record>>
    ELSE LET combined == [actions |-> ActionNames(acts), steps |-> res,
                          lastPayload |-> IF last # NoPayload THEN last ELSE AbsentPayload]
         IN <<combined, combined>>

compose_results_payload_unwrapped(acts, res, last) ==
    IF res = <<>>
    THEN <<[steps |-> <<>>], [steps |-> <<>>]>>
    ELSE IF Len(res) = 1
    THEN <<res[1].payload, res[1].payload>>
    ELSE LET combined == [actions |-> ActionNames(acts), steps |-> res,
                          lastPayload |-> IF last # NoPayload THEN last ELSE AbsentPayload]
         IN <<combined, combined>>

\* _compose_results_payload: <<payload for the answer, caller-facing result>>
compose_results_payload(acts, res, last) ==
    IF res = <<>>
    THEN <<[steps |-> <<>>], [steps |-> <<>>]>>
    ELSE IF Len(res) = 1
    THEN LET step_record == res[1]
             payload == IF step_record.payload = NoPayload
                        THEN (IF last = NoPayload THEN EmptyDict ELSE last)
                        ELSE step_record.payload
         IN <<payload, step_record>>
    ELSE LET combined == [actions |-> ActionNames(acts), steps |-> res,
                          lastPayload |-> IF last # NoPayload THEN last ELSE AbsentPayload]
         IN <<combined, combined>>

\* ---- inputs of one request
CallerUrls == {None, "", "A"}
YamlContents == {None, "", "yaml"}
\* entries that are kept: a bare name, an object with objective and override, an
\* object whose override comes in under the key "url"
CoreEntries ==
    { StrEntry("summary"),
      DictEntry("optimal", "maximize", "B", None),
      DictEntry("subscriptions", None, None, "A") }
\* ... and malformed ones
RawEntries ==
    CoreEntries \cup
    { StrEntry("bogus"), OtherEntry,
      DictEntry("optimal", "cheapest", NonStr, "A"),
      DictEntry("bogus", "minimize", "B", None),
      DictEntry(NonStr, None, None, None) }
ListsOver(S) == UNION { [1..n -> S] : n \in 0..MaxActions }
AsList(l) == [kind |-> "list", items |-> l]
NoUrl == [kind |-> "none", items |-> <<>>]
PlanUrls ==
    { NoUrl, [kind |-> "str", items |-> <<"B">>], [kind |-> "str", items |-> <<"">>],
      [kind |-> "list", items |-> <<>>], [kind |-> "list", items |-> <<"B", "A">>],
      [kind |-> "list", items |-> <<"", "B">>],
      [kind |-> "other", items |-> <<>>] }
\* the planner's answers: every shape of action list under a plain plan, and every
\* combination of the other plan fields over the well-formed entries
Plans ==
    [actions : { AsList(l) : l \in ListsOver(RawEntries) }
                   \cup { [kind |-> "none", items |-> <<>>], [kind |-> "other", items |-> <<>>] },
     pricing_url : {NoUrl}, requires_uploaded_yaml : {FALSE},
     refresh : {TRUE}, objective : {"minimize"}]
    \cup
    [actions : { AsList(l) : l \in ListsOver(CoreEntries) },
     pricing_url : PlanUrls, requires_uploaded_yaml : BOOLEAN,
     refresh : BOOLEAN, objective : {"minimize", "maximize"}]
NoPlan ==
    [actions |-> [kind |-> "none", items |-> <<>>], pricing_url |-> [kind |-> "none", items |-> <<>>],
     requires_uploaded_yaml |-> FALSE, refresh |-> FALSE, objective |-> "minimize"]
Payloads == { [data |-> "p1"], [data |-> "p2"] }

Pending ==
    [status |-> "pending", plan |-> None, result |-> [steps |-> <<>>], answer |-> None,
     detail |-> None]
Raised(e, msg) ==
    [status |-> e, plan |-> None, result |-> [steps |-> <<>>], answer |-> None, detail |-> msg]

returned_plan_normalized(pl, acts) ==
    [pl EXCEPT !.actions =
        [kind |-> "list",
         items |-> [i \in 1..Len(acts) |->
                       DictEntry(acts[i].name, acts[i].objective, acts[i].pricing_url, None)]]]

\* the value under "plan" of the dict handle_question returns: the object
\* _generate_plan returned; the normalized list lives in a variable of its own
returned_plan(pl, acts) == pl

AgentInit ==
    /\ pricing_url \in CallerUrls
    /\ yaml_content \in YamlContents
    /\ plan = NoPlan
    /\ agent_pc = "start"
    /\ actions = <<>>
    /\ url = None
    /\ index = 0
    /\ transformed_urls = {}
    /\ results = <<>>
    /\ last_payload = NoPayload
    /\ response_payload = Pending
    /\ remote = <<>>

\* plan = await self._generate_plan(...): one structured completion call
GeneratePlan ==
    /\ agent_pc = "start"
    /\ remote' = Append(remote, llm_call("llm_plan", NoPayload))
    /\ \/ /\ \E pl \in Plans : plan' = pl
          /\ agent_pc' = "plan"
          /\ UNCHANGED response_payload
       \/ \* make_full_request ran out of attempts, or its text is not JSON
          /\ agent_pc' = "raised"
          /\ \E msg \in {MsgExhausted, MsgPlanParse} :
                response_payload' = Raised("ValueError", msg)
          /\ UNCHANGED plan
    /\ UNCHANGED <<pricing_url, yaml_content, actions, url, index, transformed_urls,
                   results, last_payload, not_agent>>

\* handle_question from _validate_yaml_requirement to the start of the loop of
\* _execute_actions (no suspension point in between)
PrepareExecution ==
    /\ agent_pc = "plan"
    /\ LET acts == normalize_actions(plan.actions)
           u == resolve_pricing_reference(plan.pricing_url, pricing_url, yaml_content)
       IN IF validate_yaml_requirement_raises(plan, yaml_content)
          THEN /\ agent_pc' = "raised"
               /\ response_payload' = Raised("ValueError", MsgYamlRequired)
               /\ UNCHANGED <<actions, url>>
          ELSE /\ actions' = acts
               /\ url' = u
               /\ IF acts = <<>>
                  THEN agent_pc' = "compose" /\ UNCHANGED response_payload
                  ELSE IF ensure_pricing_context_raises(acts, u, yaml_content)
                  THEN /\ agent_pc' = "raised"
                       /\ response_payload' =
                              Raised("ValueError", ensure_pricing_context_error(acts, u, yaml_content))
                  ELSE agent_pc' = "exec" /\ UNCHANGED response_payload
    /\ index' = 0
    /\ transformed_urls' = {}
    /\ results' = <<>>
    /\ last_payload' = NoPayload
    /\ UNCHANGED <<pricing_url, yaml_content, plan, remote, not_agent>>

on_workflow_error_swallowed(n, i) == "compose"
\* where handle_question goes when the operation of action i (of n) raises: nothing
\* catches the exception
on_workflow_error(n, i) == "raised"

\* one iteration of the loop of _execute_actions, up to the await of the Workflow
\* operation
DispatchAction ==
    /\ agent_pc = "exec"
    /\ index < Len(actions)
    /\ LET action == next_action(actions, index)
           inp == prepare_action_inputs(action, url, plan.refresh, transformed_urls, yaml_content)
       IN remote' = Append(remote, workflow_call(action, inp.action_url, inp.effective_refresh,
                                                 plan.objective, inp.action_yaml))
    /\ agent_pc' = "await"
    /\ UNCHANGED <<pricing_url, yaml_content, plan, actions, url, index, transformed_urls,
                   results, last_payload, response_payload, not_agent>>

\* ... and from the return of the Workflow operation to the end of the iteration
ActionReturns ==
    /\ agent_pc = "await"
    /\ LET action == next_action(actions, index)
           inp == prepare_action_inputs(action, url, plan.refresh, transformed_urls, yaml_content)
       IN /\ UNCHANGED remote
          /\ \/ \E payload \in Payloads :
                /\ transformed_urls' =
                       IF inp.effective_refresh /\ Truthy(inp.action_url)
                       THEN transformed_urls \cup {inp.action_url} ELSE transformed_urls
                /\ results' = Append(results, StepRecord(index, action, payload,
                                                         plan.objective, inp.action_url))
                /\ last_payload' = payload
                /\ index' = index + 1
                /\ agent_pc' = IF index + 1 = Len(actions) THEN "compose" ELSE "exec"
                /\ UNCHANGED response_payload
             \/ \* the Workflow operation raises
                /\ agent_pc' = on_workflow_error(Len(actions), index)
                /\ response_payload' = Raised("Exception", MsgWorkflow)
                /\ UNCHANGED <<transformed_urls, results, last_payload, index>>
    /\ UNCHANGED <<pricing_url, yaml_content, plan, actions, url, not_agent>>

\* _compose_results_payload, _generate_answer and the return
ComposeAndAnswer ==
    /\ agent_pc = "compose"
    /\ LET composed == compose_results_payload(actions, results, last_payload) IN
       /\ remote' = Append(remote, llm_call("llm_answer", composed[1]))
       /\ \/ \E answer \in {"", "text"} :
               /\ agent_pc' = "returned"
               /\ response_payload' =
                      [status |-> "returned", plan |-> returned_plan(plan, actions),
                       result |-> composed[2],
                       answer |-> Or(answer, "No answer could be generated."),
                       detail |-> None]
          \/ \* make_full_request ran out of attempts
             /\ agent_pc' = "raised"
             /\ response_payload' = Raised("ValueError", MsgExhausted)
    /\ UNCHANGED <<pricing_url, yaml_content, plan, actions, url, index, transformed_urls,
                   results, last_payload, not_agent>>

\* the chat operation of http.py around handle_question: the HTTP status it answers
\* with, and the detail of the error
chat(resp) ==
    IF resp.status = "returned" THEN [status_code |-> 200, detail |-> None]
    ELSE IF resp.status = "ValueError" THEN [status_code |-> 400, detail |-> resp.detail]
    ELSE [status_code |-> 502, detail |-> resp.detail]

AgentNext ==
    GeneratePlan \/ PrepareExecution \/ DispatchAction \/ ActionReturns \/ ComposeAndAnswer

\* ---- properties of handle_question
\* the name an entry of the raw action list states
EntryName(e) == IF e.type \in {"str", "dict"} THEN e.name ELSE None
\* the entries of the raw action list whose name is in the closed vocabulary
KeptEntries(raw) ==
    IF raw.kind = "list"
    THEN SelectSeq(raw.items, LAMBDA e : EntryName(e) \in ALLOWED_ACTIONS) ELSE <<>>
\* the Workflow calls of this request, in dispatch order
Dispatched == SelectSeq(remote, LAMBDA c : c.kind \in ALLOWED_ACTIONS)
Normalized == agent_pc \in {"exec", "await", "compose", "returned"} \/ actions # <<>>

\* C8: normalization keeps, in order, exactly the entries of the raw action list
\* whose name is in {optimal, subscriptions, summary}; the others are dropped without
\* failing the request and no Workflow operation is dispatched for them.
C8_NormalizationKeepsValidNames ==
    /\ Normalized =>
          /\ Len(actions) = Len(KeptEntries(plan.actions))
          /\ \A i \in 1..Len(actions) :
                actions[i].name = EntryName(KeptEntries(plan.actions)[i])
    /\ Len(Dispatched) <= Len(KeptEntries(plan.actions))
    /\ \A i \in 1..Len(Dispatched) :
          Dispatched[i].kind = EntryName(KeptEntries(plan.actions)[i])
    /\ (agent_pc = "raised" /\ Len(remote) = 1 /\ plan # NoPlan) =>
          \/ validate_yaml_requirement_raises(plan, yaml_content)
          \/ ensure_pricing_context_raises(actions, url, yaml_content)

C8_Witness ==
    /\ agent_pc = "returned"
    /\ plan.actions.kind = "list" /\ Len(plan.actions.items) = 2
    /\ plan.actions.items[1] = DictEntry("bogus", "minimize", "B", None)
    /\ plan.actions.items[2] = DictEntry("optimal", "cheapest", NonStr, "A")
    /\ ActionNames(actions) = <<"optimal">>
    /\ Len(Dispatched) = 1

\* C9: with plan.refresh true, a dispatched call carries refresh = true exactly when
\* no earlier dispatched call of the request used the same reference; with
\* plan.refresh false no dispatched call carries refresh = true.
C9_RefreshOncePerReference ==
    \A i \in 1..Len(Dispatched) :
       Dispatched[i].refresh =
          (plan.refresh /\ \A j \in 1..(i - 1) : Dispatched[j].url # Dispatched[i].url)

C9_Witness ==
    /\ plan.refresh /\ Len(Dispatched) = 2
    /\ Dispatched[1].url = "A" /\ Dispatched[2].url = "A"
    /\ Dispatched[1].refresh /\ ~Dispatched[2].refresh

\* C10 as stated: for a plan that executes exactly one action the caller-facing
\* result equals that action's raw payload, with no wrapping object.
C10_ResultIsRawPayload ==
    (agent_pc = "returned" /\ Len(results) = 1) =>
        response_payload.result = results[1].payload

\* C10 amended: for a plan that executes exactly one action the caller-facing result
\* is that action's step record (index 0, the action name, its payload, the objective
\* of an optimal action, the reference used); only the answer-context payload is the
\* raw payload itself.
C10_ResultIsStepRecord ==
    (agent_pc = "returned" /\ Len(results) = 1) =>
        /\ response_payload.result = results[1]
        /\ response_payload.result.index = 0
        /\ response_payload.result.action = actions[1].name
        /\ response_payload.result.payload = last_payload
        /\ response_payload.result.payload \in Payloads
        /\ remote[Len(remote)].kind = "llm_answer"
        /\ remote[Len(remote)].payload = last_payload

C10_Witness ==
    /\ agent_pc = "returned" /\ Len(results) = 1 /\ Len(Dispatched) = 1
    /\ response_payload.result.payload = [data |-> "p2"]

\* C11: for a plan that executes n >= 2 actions the caller-facing result is the
\* combined object: actions lists the n executed names in execution order, steps
\* holds the n step records in order (step i has index i, counted from 0, and the
\* name of action i), lastPayload is the payload of the last executed action; the
\* same object is the payload given to answer synthesis.
C11_CombinedResult ==
    (agent_pc = "returned" /\ Len(results) >= 2) =>
        LET n == Len(results)
            result == response_payload.result
        IN  /\ n = Len(actions) /\ n = Len(Dispatched)
            /\ Len(result.actions) = n /\ Len(result.steps) = n
            /\ \A i \in 1..n :
                  /\ result.actions[i] = Dispatched[i].kind
                  /\ result.steps[i].index = i - 1
                  /\ result.steps[i].action = Dispatched[i].kind
                  /\ result.steps[i].action = actions[i].name
                  /\ result.steps[i] = results[i]
            /\ result.lastPayload = result.steps[n].payload
            /\ result.lastPayload \in Payloads
            /\ remote[Len(remote)].kind = "llm_answer"
            /\ remote[Len(remote)].payload = result

C11_Witness ==
    /\ agent_pc = "returned" /\ Len(results) = 2
    /\ response_payload.result.actions = <<"optimal", "summary">>
    /\ response_payload.result.steps[1].payload = [data |-> "p1"]
    /\ response_payload.result.lastPayload = [data |-> "p2"]

\* C12: when some normalized action has neither a reference (its own override or
\* the request-level resolved one) nor document content, handle_question raises the
\* invalid-request error (ValueError, answered 400 by chat) and no Workflow operation
\* of the request is dispatched, also when earlier actions of the list have context.
C12_MissingContextRejected ==
    LET acts == normalize_actions(plan.actions)
        u == resolve_pricing_reference(plan.pricing_url, pricing_url, yaml_content)
    IN  (/\ agent_pc \notin {"idle", "start", "plan"}
         /\ \E i \in 1..Len(acts) :
               ~Truthy(acts[i].pricing_url) /\ ~Truthy(u) /\ ~Truthy(yaml_content)) =>
            /\ agent_pc = "raised"
            /\ response_payload.status = "ValueError"
            /\ response_payload.detail \in {MsgYamlRequired, MsgAnalysisContext, MsgSummaryContext}
            /\ chat(response_payload).status_code = 400
            /\ Dispatched = <<>>
            /\ Len(remote) = 1

C12_Witness ==
    /\ agent_pc = "raised" /\ Dispatched = <<>>
    /\ Len(actions) = 2 /\ url = None
    /\ actions[1] = PlannedAction("optimal", "maximize", "B")
    /\ actions[2] = PlannedAction("summary", None, None)
    /\ response_payload = Raised("ValueError", MsgSummaryContext)

\* C13: when a completion call of handle_question (plan generation or answer
\* synthesis) runs out of attempts, chat answers with a server-side error status
\* (5xx), never with a client error status (4xx).
C13_ExhaustionIsServerError ==
    (agent_pc = "raised" /\ response_payload.detail = MsgExhausted) =>
        /\ chat(response_payload).status_code >= 500
        /\ chat(response_payload).status_code \notin 400..499

\* C14: when the plan declares requires_uploaded_yaml and the caller gave no document
\* content (None or the empty text), handle_question raises the invalid-request error;
\* no Workflow operation is dispatched and no answer-synthesis completion call is made.
C14_YamlRequirementRejected ==
    (/\ agent_pc \notin {"idle", "start", "plan"}
     /\ plan.requires_uploaded_yaml /\ yaml_content \in {None, ""}) =>
        /\ agent_pc = "raised"
        /\ response_payload = Raised("ValueError", MsgYamlRequired)
        /\ chat(response_payload).status_code = 400
        /\ Dispatched = <<>>
        /\ \A i \in 1..Len(remote) : remote[i].kind # "llm_answer"
        /\ remote = <<llm_call("llm_plan", NoPayload)>>

C14_Witness ==
    /\ agent_pc = "raised" /\ response_payload = Raised("ValueError", MsgYamlRequired)
    /\ yaml_content = "" /\ pricing_url = "A"
    /\ plan.requires_uploaded_yaml
    /\ plan.actions.items = <<StrEntry("summary")>>

\* the request has got past _resolve_pricing_reference
Resolved ==
    /\ agent_pc \in {"exec", "await", "compose", "returned", "raised"}
    /\ plan # NoPlan /\ ~(plan.requires_uploaded_yaml /\ ~Truthy(yaml_content))

\* C22 as stated: the resolved reference is the plan's reference if that is a string,
\* else the first element of a non-empty sequence, else the caller's reference; when
\* none of them gives a reference, the sentinel if document content was supplied and
\* absent otherwise; the caller's reference is never used when the plan's is a string.
C22_ReferenceResolution ==
    Resolved =>
        LET pu == plan.pricing_url
            chosen == IF pu.kind = "str" THEN pu.items[1]
                      ELSE IF pu.kind = "list" /\ pu.items # <<>> THEN pu.items[1]
                      ELSE pricing_url
        IN  /\ Truthy(chosen) => url = chosen
            /\ (~Truthy(chosen) /\ Truthy(yaml_content)) => url = UploadedRef
            /\ (~Truthy(chosen) /\ ~Truthy(yaml_content)) => ~Truthy(url)
            /\ (pu.kind = "str" /\ Truthy(pricing_url) /\ pu.items[1] # pricing_url) =>
                   url # pricing_url

\* C22 amended: the same with "a non-empty string" and "a non-empty first element":
\* an empty plan reference falls through to the caller's reference, and with no
\* non-empty reference and no document the result is the caller's absent or empty one.
C22_ReferenceResolutionNonEmpty ==
    Resolved =>
        LET pu == plan.pricing_url
            chosen == IF pu.kind = "str" /\ pu.items[1] # "" THEN pu.items[1]
                      ELSE IF pu.kind = "list" /\ pu.items # <<>> /\ pu.items[1] \notin {"", None}
                      THEN pu.items[1]
                      ELSE pricing_url
        IN  /\ url = IF chosen \notin {"", None} THEN chosen
                      ELSE IF yaml_content \notin {"", None} THEN UploadedRef ELSE pricing_url
            /\ (chosen \in {"", None} /\ yaml_content \in {"", None}) => url \in {"", None}
            /\ (pu.kind = "str" /\ pu.items[1] # "" /\ pu.items[1] # pricing_url) =>
                   url # pricing_url

C22_Witness ==
    /\ agent_pc = "exec" /\ plan.pricing_url = [kind |-> "str", items |-> <<"">>]
    /\ pricing_url = "A" /\ yaml_content = "yaml" /\ url = "A"

\* the references refreshed by the first n dispatched operations
RefreshedBy(n) == { Dispatched[j].url : j \in { k \in 1..n : Dispatched[k].refresh } }

\* C23: the Workflow operations of a request are dispatched in the order of the
\* normalized action list and one at a time: operation i+1 is dispatched when exactly
\* the operations 1..i have returned, at most one operation is awaited at any time, and
\* the refreshed set seen at the dispatch of operation i+1 holds every reference
\* refreshed by the operations before it.
C23_DispatchInOrder ==
    /\ Len(Dispatched) <= Len(actions)
    /\ \A i \in 1..Len(Dispatched) :
          /\ Dispatched[i].kind = actions[i].name
          /\ Dispatched[i].url = Or(actions[i].pricing_url, url)
          /\ Dispatched[i].completed = i - 1
          /\ Dispatched[i].seen_refreshed = RefreshedBy(i - 1)
    /\ Len(Dispatched) - Len(results) \in {0, 1}
    /\ agent_pc = "await" <=> (Len(Dispatched) = Len(results) + 1 /\ agent_pc # "raised")
    /\ agent_pc = "exec" => (Len(Dispatched) = Len(results) /\ index = Len(results))

C23_Witness ==
    /\ agent_pc = "await" /\ Len(Dispatched) = 2 /\ plan.refresh
    /\ ActionNames(actions) = <<"optimal", "summary">>
    /\ Dispatched[1].url = "B" /\ Dispatched[2].url = "A"
    /\ Dispatched[2].seen_refreshed = {"B"}

AnswerCalls == SelectSeq(remote, LAMBDA c : c.kind = "llm_answer")

\* C24: when the Workflow operation of an action fails, no operation of a later action
\* is dispatched, no result is composed, no answer-synthesis call is made and the
\* failure reaches the caller (answered 502 by chat); answer synthesis is reached only
\* when every action of the plan has completed, or the plan has no actions.
C24_FailureAborts ==
    /\ response_payload.status = "Exception" =>
          /\ agent_pc = "raised"
          /\ response_payload = Raised("Exception", MsgWorkflow)
          /\ Len(Dispatched) = index + 1 /\ Len(results) = index
          /\ remote[Len(remote)].kind = actions[index + 1].name
          /\ AnswerCalls = <<>>
          /\ chat(response_payload).status_code = 502
          /\ ~ENABLED AgentNext
    /\ AnswerCalls # <<>> =>
          /\ Len(AnswerCalls) = 1
          /\ Len(results) = Len(actions) /\ Len(Dispatched) = Len(actions)
          /\ response_payload.status # "Exception"

C24_Witness ==
    /\ agent_pc = "raised" /\ response_payload.status = "Exception"
    /\ Len(actions) = 2 /\ Len(Dispatched) = 1 /\ results = <<>>

\* C25: the caller's document content goes into the Workflow call of an action
\* exactly when the action's reference (its override, else the resolved reference)
\* equals the request-level resolved reference; an action pinned by its override to
\* another reference is dispatched without document content.
C25_YamlOnlyForResolvedReference ==
    \A i \in 1..Len(Dispatched) :
       LET reference == IF actions[i].pricing_url \notin {None, ""}
                        THEN actions[i].pricing_url ELSE url
       IN  /\ Dispatched[i].url = reference
           /\ reference = url => Dispatched[i].yaml_content = yaml_content
           /\ reference # url => Dispatched[i].yaml_content = None

C25_Witness ==
    /\ Len(Dispatched) = 2 /\ yaml_content = "yaml" /\ url = "A"
    /\ Dispatched[1].url = "B" /\ Dispatched[1].yaml_content = None
    /\ Dispatched[2].url = "A" /\ Dispatched[2].yaml_content = "yaml"
    /\ actions[2].pricing_url = "A"

ValidationFailed ==
    /\ agent_pc = "raised"
    /\ response_payload.detail \in {MsgYamlRequired, MsgAnalysisContext, MsgSummaryContext}

\* C26 (as stated): every validation failure of handle_question (the plan requires
\* a document that is missing, an action lacks pricing context) is raised before any
\* remote call (completion, analysis job, document fetch) of the request.
C26_ValidationBeforeAnyRemoteCall ==
    ValidationFailed => remote = <<>>

\* C26 (amended): every validation failure is raised when exactly one remote call has
\* been issued, the plan-generation completion, and before any Workflow operation or
\* the answer-synthesis completion; a Workflow operation is dispatched only for a
\* request that passes both validations.
C26_ValidationBeforeWorkflowCalls ==
    /\ ValidationFailed => remote = <<llm_call("llm_plan", NoPayload)>>
    /\ (Dispatched # <<>> \/ AnswerCalls # <<>>) =>
          /\ ~(plan.requires_uploaded_yaml /\ yaml_content \in {None, ""})
          /\ \A i \in 1..Len(actions) :
                \/ actions[i].pricing_url \notin {None, ""}
                \/ url \notin {None, ""}
                \/ yaml_content \notin {None, ""}

C26_Witness ==
    /\ ValidationFailed /\ response_payload.detail = MsgAnalysisContext
    /\ Len(remote) = 1 /\ remote[1].kind = "llm_plan"
    /\ pricing_url = None /\ yaml_content = None

\* C27 (as stated): in the plan that handle_question returns, the actions list is the
\* normalized sequence (dropped entries absent) and every other field equals the
\* planner's output.
C27_ReturnedPlanIsNormalized ==
    agent_pc = "returned" =>
       /\ response_payload.plan.actions.kind = "list"
       /\ Len(response_payload.plan.actions.items) = Len(actions)
       /\ \A i \in 1..Len(actions) :
             EntryName(response_payload.plan.actions.items[i]) = actions[i].name
       /\ \A f \in {"pricing_url", "requires_uploaded_yaml", "refresh", "objective"} :
             response_payload.plan[f] = plan[f]

\* C27 (amended): the plan is produced once per request and never changed afterwards;
\* the plan that handle_question returns equals the planner's output in every field,
\* the raw actions list (dropped entries included) among them.
C27_ReturnedPlanIsPlannerOutput ==
    /\ [](agent_pc = "returned" => response_payload.plan = plan)
    /\ [][agent_pc # "start" => plan' = plan]_vars

C27_Witness ==
    /\ agent_pc = "returned"
    /\ response_payload.plan = plan
    /\ plan.actions.kind = "list" /\ Len(plan.actions.items) = 2
    /\ plan.actions.items[1] = StrEntry("bogus")
    /\ ActionNames(actions) = <<"summary">>

\* C28: when the normalized action list is empty, no Workflow operation is
\* dispatched, no pricing-context precondition is applied (the request succeeds even
\* with no reference and no document), the result is the empty shell with an empty
\* step list, and exactly one answer-synthesis completion call is made.
C28_EmptyActionList ==
    /\ (agent_pc \in {"exec", "await"} \/ Dispatched # <<>>) => actions # <<>>
    /\ (agent_pc = "raised" /\ response_payload.detail \in {MsgAnalysisContext, MsgSummaryContext})
          => actions # <<>>
    /\ (agent_pc = "plan" /\ normalize_actions(plan.actions) = <<>>
            /\ ~(plan.requires_uploaded_yaml /\ yaml_content \in {None, ""})) =>
          ENABLED (PrepareExecution /\ agent_pc' = "compose")
    /\ (agent_pc = "returned" /\ actions = <<>>) =>
          /\ Dispatched = <<>>
          /\ response_payload.result = [steps |-> <<>>]
          /\ Len(AnswerCalls) = 1
          /\ AnswerCalls[1].payload = [steps |-> <<>>]
          /\ Len(remote) = 2

C28_Witness ==
    /\ agent_pc = "returned" /\ actions = <<>>
    /\ pricing_url = None /\ yaml_content = None /\ url = None
    /\ plan.actions.kind = "list" /\ Len(plan.actions.items) = 2
    /\ response_payload.result = [steps |-> <<>>]

\* C29: the objective passed to runOptimal and recorded in the step record of an
\* optimal action is the entry's own objective when that is minimize or maximize and
\* the plan-level default otherwise; an entry with any other objective is kept with
\* its objective discarded; step records and calls of summary and subscriptions
\* actions carry no objective.
C29_ObjectiveResolution ==
    LET kept == KeptEntries(plan.actions)
        resolved(e) == IF e.type = "dict" /\ e.objective \in {"minimize", "maximize"}
                       THEN e.objective ELSE plan.objective
    IN  /\ Normalized =>
              /\ Len(actions) = Len(kept)
              /\ \A i \in 1..Len(actions) :
                    actions[i].objective =
                        IF kept[i].type = "dict" /\ kept[i].objective \in {"minimize", "maximize"}
                        THEN kept[i].objective ELSE None
        /\ \A i \in 1..Len(Dispatched) :
              Dispatched[i].objective =
                  IF kept[i].name = "optimal" THEN resolved(kept[i]) ELSE Absent
        /\ \A i \in 1..Len(results) :
              results[i].objective =
                  IF kept[i].name = "optimal" THEN resolved(kept[i]) ELSE Absent

C29_Witness ==
    /\ Len(results) = 2 /\ Len(Dispatched) = 2
    /\ plan.actions.items[1] = DictEntry("optimal", "cheapest", NonStr, "A")
    /\ plan.actions.items[2] = DictEntry("optimal", "maximize", "B", None)
    /\ plan.objective = "minimize"
    /\ results[1].objective = "minimize" /\ results[2].objective = "maximize"
    /\ Dispatched[1].objective = "minimize" /\ Dispatched[2].objective = "maximize"

\* C31: every Workflow operation dispatched by handle_question receives a non-empty
\* pricing reference, the one _prepare_action_inputs computed (the empty-string
\* fallback of the dispatch is never taken): with document content supplied the
\* request-level reference is non-empty, the sentinel at least; without it the
\* request gets past the context precondition only if every action has a non-empty
\* reference.
C31_DispatchedReferenceNonEmpty ==
    /\ \A i \in 1..Len(Dispatched) :
          /\ Dispatched[i].url \notin {None, ""}
          /\ Dispatched[i].url = IF actions[i].pricing_url \notin {None, ""}
                                 THEN actions[i].pricing_url ELSE url
    /\ (agent_pc \in {"exec", "await", "compose", "returned"} /\ yaml_content \notin {None, ""})
          => url \notin {None, ""}
    /\ (agent_pc \in {"exec", "await"} /\ yaml_content \in {None, ""}) =>
          \A i \in 1..Len(actions) :
             actions[i].pricing_url \notin {None, ""} \/ url \notin {None, ""}
    /\ (agent_pc \notin {"idle", "start", "plan"} /\ plan # NoPlan
            /\ yaml_content \in {None, ""}
            /\ \E i \in 1..Len(normalize_actions(plan.actions)) :
                  /\ normalize_actions(plan.actions)[i].pricing_url \in {None, ""}
                  /\ resolve_pricing_reference(plan.pricing_url, pricing_url, yaml_content)
                        \in {None, ""}) =>
          agent_pc = "raised" /\ Dispatched = <<>>

\* a subscriptions operation dispatched on the sentinel: document content, no
\* reference from the caller or the plan, none on the action
C31_Witness ==
    /\ Len(Dispatched) = 2 /\ yaml_content = "yaml" /\ pricing_url = ""
    /\ plan.pricing_url = [kind |-> "str", items |-> <<"">>]
    /\ Dispatched[1].kind = "summary" /\ Dispatched[1].url = UploadedRef
    /\ actions[2].name = "subscriptions" /\ actions[2].pricing_url = "A"
    /\ Dispatched[2].url = "A" /\ url = UploadedRef

(***************************************************************************)
(* ServiceContainer.shutdown and lifespan (container.py)                   *)
(***************************************************************************)
\* how an awaited close call may end
CloseOutcomes == {"ok", "Exception", "CancelledError"}
\* BaseCache.close (inherited by MemoryCache) only awaits asyncio.sleep(0);
\* RedisCache.close awaits the connection's aclose
cache_close_outcomes(backend) ==
    IF backend = "redis" THEN CloseOutcomes ELSE {"ok", "CancelledError"}

LifeInit ==
    /\ cache_backend \in {"memory", "redis"}
    /\ app_has_state \in BOOLEAN
    /\ life_pc = "enter"
    /\ served = 0
    /\ life_error = None
    /\ closed = <<>>

\* lifespan up to the yield
LifespanEnter ==
    /\ life_pc = "enter"
    /\ life_pc' = "serving"
    /\ UNCHANGED <<cache_backend, app_has_state, served, life_error, closed, not_life>>

\* the application handles a request while the context is open
ServeRequest ==
    /\ life_pc = "serving" /\ served < MaxServed
    /\ served' = served + 1
    /\ UNCHANGED <<cache_backend, app_has_state, life_pc, life_error, closed, not_life>>

\* the yield returns (normal exit) or raises (error, cancellation): finally runs
\* container.shutdown()
LifespanExit ==
    /\ life_pc = "serving"
    /\ \E cause \in {None, "Exception", "CancelledError"} : life_error' = cause
    /\ life_pc' = "close_amint"
    /\ UNCHANGED <<cache_backend, app_has_state, served, closed, not_life>>

\* where shutdown goes after an awaited close: on, or out with the exception
shutdown_after_failure(outcome, next) == IF outcome = "ok" THEN next ELSE "ended"

\* await self.amint_client.aclose()
CloseAmint ==
    /\ life_pc = "close_amint"
    /\ closed' = Append(closed, "amint")
    /\ \E outcome \in CloseOutcomes :
          /\ life_pc' = shutdown_after_failure(outcome, "close_analysis")
          /\ life_error' = IF outcome = "ok" THEN life_error ELSE outcome
    /\ UNCHANGED <<cache_backend, app_has_state, served, not_life>>

\* await self.analysis_client.aclose()
CloseAnalysis ==
    /\ life_pc = "close_analysis"
    /\ closed' = Append(closed, "analysis")
    /\ \E outcome \in CloseOutcomes :
          /\ life_pc' = shutdown_after_failure(outcome, "close_cache")
          /\ life_error' = IF outcome = "ok" THEN life_error ELSE outcome
    /\ UNCHANGED <<cache_backend, app_has_state, served, not_life>>

\* await self.cache.close()
CloseCache ==
    /\ life_pc = "close_cache"
    /\ closed' = Append(closed, "cache")
    /\ \E outcome \in cache_close_outcomes(cache_backend) :
          /\ life_pc' = "ended"
          /\ life_error' = IF outcome = "ok" THEN life_error ELSE outcome
    /\ UNCHANGED <<cache_backend, app_has_state, served, not_life>>

LifeNext ==
    LifespanEnter \/ ServeRequest \/ LifespanExit \/ CloseAmint \/ CloseAnalysis \/ CloseCache

\* ---- properties of the lifespan
Invoked(c) == \E i \in 1..Len(closed) : closed[i] = c

\* C21: whenever the lifespan has ended, normally or by an error (a failure while
\* closing one of the other clients included), cache.close has been invoked.
C21_CacheClosedOnEveryExit ==
    life_pc = "ended" => Invoked("cache")

(***************************************************************************)
(* Two requests inside _execute_actions at the same time (agent.py): each  *)
(* call of handle_question is a task of its own on the one PricingAgent,   *)
(* and the tasks interleave at the awaits of the Workflow operations.      *)
(***************************************************************************)
Requests == {"r1", "r2"}
\* the actions of a concurrent request: on the request-level reference, pinned to it
\* by an override, or pinned to another reference
ConcurrentActions ==
    { PlannedAction("summary", None, None),
      PlannedAction("subscriptions", None, "A"),
      PlannedAction("optimal", "maximize", "B") }
ConcurrentLists == UNION { [1..n -> ConcurrentActions] : n \in 1..MaxActions }

\* a request at the start of the loop of _execute_actions, refresh requested
RequestStart(acts) ==
    [actions |-> acts, url |-> "A", refresh |-> TRUE, yaml_content |-> None,
     index |-> 0, transformed_urls |-> {}, pc |-> "exec", calls |-> <<>>]

ReqInit == req \in [Requests -> { RequestStart(acts) : acts \in ConcurrentLists }]

refreshed_before_shared(rq, r) == UNION { rq[q].transformed_urls : q \in Requests }
\* the set _prepare_action_inputs of request r is given: transformed_urls, a local
\* variable of that request's call of _execute_actions
refreshed_before(rq, r) == rq[r].transformed_urls

\* one iteration of the loop of request r, up to the await of the Workflow operation;
\* refreshed_elsewhere notes what the other requests had refreshed by then
ReqDispatch(r) ==
    /\ req[r].pc = "exec"
    /\ LET me == req[r]
           action == next_action(me.actions, me.index)
           inp == prepare_action_inputs(action, me.url, me.refresh,
                                        refreshed_before(req, r), me.yaml_content)
           call == [kind |-> action.name, url |-> inp.action_url,
                    refresh |-> inp.effective_refresh,
                    refreshed_elsewhere |->
                        UNION { req[q].transformed_urls : q \in Requests \ {r} }]
       IN req' = [req EXCEPT ![r].calls = Append(me.calls, call), ![r].pc = "await"]
    /\ UNCHANGED not_req

\* ... and from the return of the operation to the end of the iteration
ReqReturns(r) ==
    /\ req[r].pc = "await"
    /\ LET me == req[r]
           call == me.calls[Len(me.calls)]
       IN \/ req' = [req EXCEPT
                        ![r].transformed_urls =
                            IF call.refresh /\ Truthy(call.url)
                            THEN me.transformed_urls \cup {call.url}
                            ELSE me.transformed_urls,
                        ![r].index = me.index + 1,
                        ![r].pc = IF me.index + 1 = Len(me.actions) THEN "done" ELSE "exec"]
          \/ \* the Workflow operation raises
             req' = [req EXCEPT ![r].pc = on_workflow_error(Len(me.actions), me.index)]
    /\ UNCHANGED not_req

ReqNext == \E r \in Requests : ReqDispatch(r) \/ ReqReturns(r)

\* ---- properties of concurrent requests
RefreshCalls(r, ref) ==
    { k \in 1..Len(req[r].calls) : req[r].calls[k].url = ref /\ req[r].calls[k].refresh }

\* C30: the already-refreshed set is private to a request. With two requests that
\* ask for refresh running in any interleaving, whether a call of a request refreshes
\* depends on that request's earlier calls only; each request that runs to its end
\* dispatches, for every reference of its actions, exactly one call with refresh =
\* true, whatever the other request has refreshed.
C30_RefreshedSetIsPrivate ==
    \A r \in Requests :
       LET me == req[r] IN
       /\ \A k \in 1..Len(me.calls) :
             /\ me.calls[k].url = Or(me.actions[k].pricing_url, me.url)
             /\ me.calls[k].refresh <=> \A j \in 1..(k - 1) : me.calls[j].url # me.calls[k].url
       /\ me.transformed_urls \subseteq { me.calls[k].url : k \in 1..Len(me.calls) }
       /\ me.pc = "done" =>
             /\ Len(me.calls) = Len(me.actions)
             /\ \A i \in 1..Len(me.actions) :
                   Cardinality(RefreshCalls(r, Or(me.actions[i].pricing_url, me.url))) = 1

\* both requests refresh A, the second after the first one's refresh was recorded,
\* and the first does not refresh A again afterwards
C30_Witness ==
    /\ req["r1"].pc = "done" /\ req["r2"].pc = "done"
    /\ Len(req["r1"].calls) = 2 /\ Len(req["r2"].calls) >= 1
    /\ req["r1"].calls[1].url = "A" /\ req["r1"].calls[1].refresh
    /\ req["r1"].calls[2].url = "A" /\ ~req["r1"].calls[2].refresh
    /\ "A" \in req["r1"].calls[2].refreshed_elsewhere
    /\ req["r2"].calls[1].url = "A" /\ req["r2"].calls[1].refresh
    /\ "A" \in req["r2"].calls[1].refreshed_elsewhere

(***************************************************************************)
(* Specifications: one per component, the others at rest                   *)
(***************************************************************************)
LlmIdle ==
    /\ config = [model |-> BaseModel, better_model |-> None]
    /\ max_tries = 0 /\ json_output = FALSE
    /\ state = GenerationState(initial_prompt, BaseModel, <<>>, "", FALSE)
    /\ attempt = 1 /\ llm_pc = "idle" /\ llm_result = Nothing /\ sent = <<>>

JobIdle ==
    /\ poll_interval_seconds = 0 /\ max_wait_seconds = 0 /\ elapsed = 0
    /\ job_pc = "idle" /\ job_result = Outcome("pending", <<>>) /\ job_log = <<>>

CacheIdle ==
    /\ store = [k \in Keys |-> NoEntry] /\ lock = None /\ now = 0
    /\ task = [t \in Tasks |-> [IdleTask EXCEPT !.pc = "off"]]
    /\ last_set = [k \in Keys |-> [present |-> FALSE, value |-> "-", expiry |-> 0]]
    /\ serial = SerialInit

AgentIdle ==
    /\ pricing_url = None /\ yaml_content = None /\ plan = NoPlan /\ agent_pc = "idle"
    /\ actions = <<>> /\ url = None /\ index = 0 /\ transformed_urls = {}
    /\ results = <<>> /\ last_payload = NoPayload /\ response_payload = Pending /\ remote = <<>>

LifeIdle ==
    /\ cache_backend = "memory" /\ app_has_state = FALSE /\ life_pc = "idle"
    /\ served = 0 /\ life_error = None /\ closed = <<>>

ReqIdle ==
    req = [r \in Requests |-> [RequestStart(<<>>) EXCEPT !.pc = "idle", !.url = None,
                                                         !.refresh = FALSE]]

InitLLM == LlmInit /\ JobIdle /\ CacheIdle /\ AgentIdle /\ LifeIdle /\ ReqIdle
SpecLLM == InitLLM /\ [][LlmNext]_vars

InitJob == JobInit /\ LlmIdle /\ CacheIdle /\ AgentIdle /\ LifeIdle /\ ReqIdle
SpecJob == InitJob /\ [][JobNext]_vars
\* ... with the event loop running the coroutine on: each request is answered (the
\* HTTP client has a timeout) and each sleep returns
SpecJobFair ==
    /\ SpecJob
    /\ WF_vars(SubmitJob) /\ WF_vars(PollStatus) /\ WF_vars(Sleep) /\ WF_vars(Timeout)

InitCache == CacheInit /\ LlmIdle /\ JobIdle /\ AgentIdle /\ LifeIdle /\ ReqIdle
SpecCache == InitCache /\ [][CacheNext]_vars
SpecCacheSteps == InitCache /\ [][CacheStepsNext]_vars

InitAgent == AgentInit /\ LlmIdle /\ JobIdle /\ CacheIdle /\ LifeIdle /\ ReqIdle
SpecAgent == InitAgent /\ [][AgentNext]_vars

InitLife == LifeInit /\ LlmIdle /\ JobIdle /\ CacheIdle /\ AgentIdle /\ ReqIdle
SpecLife == InitLife /\ [][LifeNext]_vars

InitRequests == ReqInit /\ LlmIdle /\ JobIdle /\ CacheIdle /\ AgentIdle /\ LifeIdle
SpecRequests == InitRequests /\ [][ReqNext]_vars

====
